---- MODULE Spec2Model ----
(***************************************************************************)
(* Bilingual subtitle generator: the subtitle codec (server/utils.ts), the *)
(* job registry and HTTP handlers (server/index.ts) and the two pipeline   *)
(* stages (server/processor.ts).                                           *)
(*                                                                         *)
(* Text is a sequence of one-character strings, so that parseSrt and       *)
(* buildSrt are computed on characters as the code computes them.          *)
(***************************************************************************)
EXTENDS Integers, Sequences, FiniteSets, Bags, TLC

VARIABLES
    jobs,       \* index.ts `jobs`: Map from job id to Job (a function on the ids present)
    srtFile,    \* data/<id>/bilingual.srt: None, or Some(text)
    inputSrt,   \* data/<id>/input.srt of a retranslate job: None, or Some(text)
    softFile,   \* data/<id>/output_soft.mp4 exists
    burnFile,   \* data/<id>/output_burned.mp4 exists
    aiTask,     \* processJobInitial of each job: the python subprocess and its stderr buffer
    retrTask,   \* processJobRetranslate of each job: suspended on its timer, with initialCues
    renders,    \* processJobFinalize invocations of each job suspended on ffmpeg (a bag)
    lastEdit,   \* history: cues of the last edit that wrote bilingual.srt since a stage wrote it
    reviewed,   \* history: the job has been in waiting_for_approval or done
    requests,   \* history: how many resume and update requests each job has received
    codec,      \* codec harness: a cue sequence pushed through buildSrt and parseSrt
    resolve,    \* config harness: a RenderConfig pushed through safeConfig and styleParts
    stream,     \* stdout harness: the lines a subprocess wrote, delivered in data chunks
    merges,     \* registry harness: the calls made on each job, and whether an unknown id was used
    client,     \* client/src/App.tsx: jobId, the poll interval, jobStatus and the requests in flight
    http        \* request harness: the job directories a restart found, and the last response sent

vars == <<jobs, srtFile, inputSrt, softFile, burnFile, aiTask, retrTask, renders,
          lastEdit, reviewed, requests, codec, resolve, stream, merges, client, http>>

pipelineVars == <<jobs, srtFile, inputSrt, softFile, burnFile, aiTask, retrTask, renders,
                  lastEdit, reviewed, requests>>

----------------------------------------------------------------------------
(* Bounds *)

MaxCues == 2          \* longest cue sequence pushed through the codec harness
MaxResumes == 2       \* resume requests sent for one job
MaxUpdates == 1       \* update requests sent for one job
MaxStderr == 1        \* stderr chunks buffered by one AI subprocess
MaxMerges == 3        \* registry calls the registry harness makes on one stored job
MaxLines == 2         \* lines the subprocess of the stdout harness writes
MaxPolls == 2         \* status requests of the page whose response has not arrived yet
MaxPath == 3          \* characters of a subtitle path pushed through the filter escaping

----------------------------------------------------------------------------
(* Generic helpers *)

None == <<>>
Some(x) == <<x>>

SetMax(S) == CHOOSE x \in S : \A y \in S : y <= x

----------------------------------------------------------------------------
(* String primitives of JavaScript used by server/utils.ts *)

IsSpace(c) == c \in {" ", "\n", "\r", "\t"}

\* String.prototype.trim
RECURSIVE TrimLeft(_)
TrimLeft(s) ==
    IF s # <<>> /\ IsSpace(Head(s)) THEN TrimLeft(Tail(s)) ELSE s

RECURSIVE TrimRight(_)
TrimRight(s) ==
    IF s # <<>> /\ IsSpace(s[Len(s)]) THEN TrimRight(SubSeq(s, 1, Len(s) - 1)) ELSE s

Trim(s) == TrimRight(TrimLeft(s))

\* replace(/\r\n/g, '\n')
RECURSIVE ReplaceCRLF(_)
ReplaceCRLF(s) ==
    IF s = <<>> THEN <<>>
    ELSE IF Len(s) >= 2 /\ s[1] = "\r" /\ s[2] = "\n"
         THEN <<"\n">> \o ReplaceCRLF(SubSeq(s, 3, Len(s)))
         ELSE <<Head(s)>> \o ReplaceCRLF(Tail(s))

\* pat occurs in s at position i
MatchAt(s, pat, i) ==
    /\ i + Len(pat) - 1 <= Len(s)
    /\ \A k \in 1..Len(pat) : s[i + k - 1] = pat[k]

\* String.prototype.includes
Includes(s, pat) == \E i \in 1..Len(s) : MatchAt(s, pat, i)

\* String.prototype.split with a string separator: every piece, left to right
RECURSIVE SplitFrom(_, _, _, _)
SplitFrom(s, sep, i, cur) ==
    IF i > Len(s) THEN <<cur>>
    ELSE IF MatchAt(s, sep, i)
         THEN <<cur>> \o SplitFrom(s, sep, i + Len(sep), <<>>)
         ELSE SplitFrom(s, sep, i + 1, Append(cur, s[i]))

Split(s, sep) == SplitFrom(s, sep, 1, <<>>)

\* The end of the leftmost-longest match of /\n\s*\n/ that starts at i, or 0
SepEnd(s, i) ==
    LET ends == {m \in (i + 1)..Len(s) :
                    /\ s[m] = "\n"
                    /\ \A k \in (i + 1)..m : IsSpace(s[k])}
    IN  IF s[i] = "\n" /\ ends # {} THEN SetMax(ends) ELSE 0

\* split(/\n\s*\n/)
RECURSIVE SplitBlocksFrom(_, _, _)
SplitBlocksFrom(s, i, cur) ==
    IF i > Len(s) THEN <<cur>>
    ELSE IF SepEnd(s, i) > 0
         THEN <<cur>> \o SplitBlocksFrom(s, SepEnd(s, i) + 1, <<>>)
         ELSE SplitBlocksFrom(s, i + 1, Append(cur, s[i]))

SplitBlocks(s) == SplitBlocksFrom(s, 1, <<>>)

\* Array.prototype.join
RECURSIVE Join(_, _)
Join(parts, sep) ==
    IF parts = <<>> THEN <<>>
    ELSE IF Len(parts) = 1 THEN parts[1]
         ELSE parts[1] \o sep \o Join(Tail(parts), sep)

\* `${n}` for a non-negative integer
Digit(d) == <<"0", "1", "2", "3", "4", "5", "6", "7", "8", "9">>[d + 1]

RECURSIVE ToDec(_)
ToDec(n) == IF n < 10 THEN <<Digit(n)>> ELSE ToDec(n \div 10) \o <<Digit(n % 10)>>

----------------------------------------------------------------------------
(* Subtitle codec: server/utils.ts *)

NL == <<"\n">>
Arrow == <<" ", "-", "-", ">", " ">>     \* ' --> '
ArrowMark == <<"-", "-", ">">>           \* '-->'

Cue(start, end, en, zh) == [start |-> start, end |-> end, en |-> en, zh |-> zh]

\* lines[k] || ""
LineOr(lines, k) == IF k <= Len(lines) THEN lines[k] ELSE <<>>

\* The loop body keeping a block it cannot read as a cue without timestamps
ParseBlock_Padded(block) ==
    LET raw   == Split(block, NL)
        lines == [k \in 1..Len(raw) |-> Trim(raw[k])]
    IN  IF Len(lines) < 2 \/ ~Includes(lines[2], ArrowMark)
        THEN <<Cue(<<>>, <<>>, LineOr(lines, 3), LineOr(lines, 4))>>
        ELSE LET parts == Split(lines[2], Arrow)
             IN  IF parts[1] # <<>> /\ LineOr(parts, 2) # <<>>
                 THEN <<Cue(parts[1], LineOr(parts, 2), LineOr(lines, 3), LineOr(lines, 4))>>
                 ELSE <<>>

\* One iteration of the loop over blocks: the cues the block contributes
ParseBlock(block) ==
    LET raw   == Split(block, NL)
        lines == [k \in 1..Len(raw) |-> Trim(raw[k])]
    IN  IF Len(lines) < 2 THEN <<>>
        ELSE LET timeLine == lines[2]
                 parts    == Split(timeLine, Arrow)
                 start    == parts[1]
                 end      == LineOr(parts, 2)
             IN  IF ~Includes(timeLine, ArrowMark) THEN <<>>
                 ELSE IF start # <<>> /\ end # <<>>
                      THEN <<Cue(start, end, LineOr(lines, 3), LineOr(lines, 4))>>
                      ELSE <<>>

RECURSIVE ParseBlocks(_)
ParseBlocks(blocks) ==
    IF blocks = <<>> THEN <<>>
    ELSE ParseBlock(Head(blocks)) \o ParseBlocks(Tail(blocks))

parseSrt(srtContent) ==
    ParseBlocks(SplitBlocks(Trim(ReplaceCRLF(srtContent))))

\* The block without its fourth line when the secondary text is empty
BuildBlock_Compact(cue, index) ==
    ToDec(index + 1) \o NL \o cue.start \o Arrow \o cue.end \o NL \o cue.en
        \o (IF cue.zh = <<>> THEN <<>> ELSE NL \o cue.zh)

BuildBlock(cue, index) ==
    ToDec(index + 1) \o NL \o cue.start \o Arrow \o cue.end \o NL \o cue.en \o NL \o cue.zh

buildSrt(cues) ==
    Join([k \in 1..Len(cues) |-> BuildBlock(cues[k], k - 1)], NL \o NL)

----------------------------------------------------------------------------
(* Job registry: server/index.ts *)

JobIds == {"j1"}

Absent == "<undefined>"       \* an optional string field that is not set
Undefined == 0 - 1            \* a numeric field holding JavaScript's undefined

OutputFormats == {"en", "zh", "bilingual"}

\* The Job object literal of a handler. id, filePath, originalFilename, createdAt,
\* sourceLang, outputFormat, lineCount and the seed transcripts are written once
\* and never changed by an update; the stages read them from the job object
\* they were called with, so the registry record leaves them out.
NewJob(status, stage, progress, result) ==
    [status |-> status, stage |-> stage, progress |-> progress,
     message |-> Absent, error |-> Absent, result |-> result]

\* The stored job replaced by the partial: fields it leaves out are reset
Merge_Replace(job, partial) ==
    [f \in DOMAIN job |-> IF f \in DOMAIN partial THEN partial[f]
                          ELSE IF f = "result" THEN None ELSE Absent]

\* { ...job, ...partial }
Merge(job, partial) ==
    [f \in DOMAIN job |-> IF f \in DOMAIN partial THEN partial[f] ELSE job[f]]

\* The update merging the partial into every stored job
updateJobStatus_Broadcast(js, id, partial) ==
    IF id \in DOMAIN js THEN [j \in DOMAIN js |-> Merge(js[j], partial)] ELSE js

\* The update storing a job for an id the registry does not hold
updateJobStatus_Upsert(js, id, partial) ==
    IF id \in DOMAIN js THEN [js EXCEPT ![id] = Merge(@, partial)]
    ELSE js @@ (id :> [status |-> "queued", stage |-> "upload", progress |-> 0,
                       message |-> Absent, error |-> Absent, result |-> <<>>])

updateJobStatus(js, id, partial) ==
    IF id \in DOMAIN js THEN [js EXCEPT ![id] = Merge(@, partial)] ELSE js

HasResult(job) == job.result # None

\* JobResult; a URL is a function of the job id, so only its presence is kept
Result(previewCues, raw, srt, soft, burn) ==
    [previewCues |-> previewCues, rawVideoUrl |-> raw, srtUrl |-> srt,
     softVideoUrl |-> soft, burnVideoUrl |-> burn]

----------------------------------------------------------------------------
(* Inputs drawn by the requests and by the external collaborators *)

T1 == <<"0", "1">>
T2 == <<"0", "2">>
Hi == <<"H", "i">>
Ni == <<"n", "i">>

\* Subtitle files the AI collaborator may write: a 4-line block with CRLF line
\* endings and a trailing line end
CRLF == <<"\r", "\n">>

AiFiles ==
    { <<"1">> \o CRLF \o T1 \o Arrow \o T2 \o CRLF \o Hi \o CRLF \o Ni \o CRLF }

\* Subtitle files uploaded with a retranslate or upload-existing request
UploadedSrts ==
    { buildSrt(<<Cue(T1, T2, Hi, Ni)>>),
      <<"1", "\n">> \o T1 \o Arrow \o T2 \o <<"\n">> \o Hi,
      buildSrt(<<Cue(T1, T2, Hi, Ni)>>) \o <<"\n", "\n", "2", "\n">> \o T2 \o Arrow \o T2 }

\* Cue arrays sent by the editor
EditCues ==
    { <<Cue(T1, T2, <<>>, Ni)>>,
      <<Cue(T1, T2, Ni, Hi), Cue(T2, T2, Hi, <<>>)>> }

\* body.cues of an update request: None when the body has no cues array
UpdateBodies == {None} \cup {Some(c) : c \in EditCues}

\* The burn style of the default config.  Of the style fields the model keeps
\* fontName and backColour, which styleParts reads with a fallback, and
\* fontSize, which stands for the fields it reads without one.
DefaultBurnConfig == [fontName |-> "Arial", fontSize |-> 16, backColour |-> "&H80000000"]

\* RenderConfig of a resume request: None, or Some(config).  The editor sends
\* every field.
Configs == [renderSoft : BOOLEAN, renderBurn : BOOLEAN, burnConfig : {DefaultBurnConfig}]
ResumeBodies == {None} \cup {Some(c) : c \in Configs}

\* What JSON.parse makes of one stdout line of the AI collaborator
Line(json, stage, progress, message) ==
    [json |-> json, stage |-> stage, progress |-> progress, message |-> message]

LogLine == Line("invalid", Absent, Undefined, Absent)
NullLine == Line("null", Absent, Undefined, Absent)
NoStageLine == Line("object", Absent, 50, "no stage")
TranslateLine == Line("object", "translate", 40, "Translating")
ScalarLine == Line("scalar", Absent, Undefined, Absent)
SrtLine == Line("object", "srt", Undefined, Absent)

\* The lines of one stdout data chunk
StdoutChunks ==
    { <<LogLine>>, <<NullLine, ScalarLine, NoStageLine>>, <<TranslateLine>>, <<LogLine, TranslateLine, SrtLine>> }

StderrTexts == {"model load failed"}

----------------------------------------------------------------------------
(* Pipeline stages: server/processor.ts *)

\* processJobRetranslate: improvedCues
ImprovedTag == <<"[", "A", "I", " ", "I", "m", "p", "r", "o", "v", "e", "d", "]", " ">>
Placeholder == <<"u7FFB", "u8BD1", "u5185", "u5BB9">>

\* The improvement also blanking the primary text of a secondary-only job
ImproveCue_Blanking(c, outputFormat) ==
    LET tagged == IF outputFormat \in {"bilingual", "zh"}
                  THEN [c EXCEPT !.zh = ImprovedTag \o (IF c.zh = <<>> THEN Placeholder ELSE c.zh)]
                  ELSE c
    IN  IF outputFormat = "en" THEN [tagged EXCEPT !.zh = <<>>]
        ELSE IF outputFormat = "zh" THEN [tagged EXCEPT !.en = <<>>] ELSE tagged

ImproveCue(c, outputFormat) ==
    LET tagged == IF outputFormat \in {"bilingual", "zh"}
                  THEN [c EXCEPT !.zh = ImprovedTag \o (IF c.zh = <<>> THEN Placeholder ELSE c.zh)]
                  ELSE c
    IN  IF outputFormat = "en" THEN [tagged EXCEPT !.zh = <<>>] ELSE tagged

ImprovedCues(cues, outputFormat) ==
    [k \in 1..Len(cues) |-> ImproveCue(cues[k], outputFormat)]

\* The subtitle files the requests and stages of this model can leave on disk
PipelineFiles ==
    AiFiles \cup UploadedSrts
        \cup {buildSrt(c) : c \in EditCues}
        \cup {buildSrt(ImprovedCues(parseSrt(u), f)) : u \in UploadedSrts, f \in OutputFormats}

\* parseSrt of each of them, evaluated once
ParsedFiles == [f \in PipelineFiles |-> parseSrt(f)]

\* parseSrt(fs.readFileSync(path, 'utf-8')) as the stages and handlers call
\* it: the tabulated value for a tabulated file, the computation otherwise
ReadCues(srtContent) ==
    IF srtContent \in DOMAIN ParsedFiles THEN ParsedFiles[srtContent] ELSE parseSrt(srtContent)

\* The invocation of processJobInitial: its position, the outputFormat of the
\* job object it was called with, and the stderr text buffered so far.  The
\* closure is dropped when the promise settles.
NoAi == [pc |-> "none", outputFormat |-> Absent, errorOutput |-> "", chunks |-> 0]
NoRetr == [pc |-> "none", outputFormat |-> Absent, initialCues |-> <<>>]

\* The loop body treating a line that is not a progress message as a failure
StdoutLine_Strict(js, id, line) ==
    IF line.json = "object" /\ line.stage # Absent
    THEN updateJobStatus(js, id, [stage |-> line.stage, progress |-> line.progress,
                                  message |-> line.message])
    ELSE updateJobStatus(js, id, [status |-> "error", message |-> "AI Processing failed",
                                  error |-> "Unexpected output"])

\* The body of the loop over the lines of one stdout chunk
StdoutLine(js, id, line) ==
    IF line.json = "object" /\ line.stage # Absent
    THEN updateJobStatus(js, id, [stage |-> line.stage, progress |-> line.progress,
                                  message |-> line.message])
    ELSE js

RECURSIVE StdoutData(_, _, _)
StdoutData(js, id, lines) ==
    IF lines = <<>> THEN js
    ELSE StdoutData(StdoutLine(js, id, Head(lines)), id, Tail(lines))

\* The messages of the three errors processJobInitial can raise
SpawnFailedText == "Failed to spawn python command. Details: ENOENT"
ServiceFailedText(errorOutput) == "AI Service failed: " \o errorOutput
MissingSrtText == "SRT file was not generated."

\* The diagnostic text dropped
ErrText_Dropped(message) == "Unknown error"

\* error.message || 'Unknown error'
ErrText(message) == IF message = "" THEN "Unknown error" ELSE message

\* The catch block leaving the job as it is
InitialFailed_Swallowed(js, id, message) == js

InitialFailed(js, id, message) ==
    updateJobStatus(js, id, [status |-> "error", message |-> "AI Processing failed",
                             error |-> ErrText(message)])

\* The checkpoint update without the result attached
InitialCheckpoint_NoResult(js, id, file) ==
    IF file = None
    THEN InitialFailed(js, id, MissingSrtText)
    ELSE updateJobStatus(js, id,
            [status |-> "waiting_for_approval", stage |-> "user_review", progress |-> 60,
             message |-> "Waiting for subtitle review"])

\* processJobInitial after the subprocess has closed with code 0
InitialCheckpoint(js, id, file) ==
    IF file = None
    THEN InitialFailed(js, id, MissingSrtText)
    ELSE updateJobStatus(js, id,
            [status |-> "waiting_for_approval", stage |-> "user_review", progress |-> 60,
             message |-> "Waiting for subtitle review",
             result |-> Some(Result(ReadCues(file[1]), TRUE, FALSE, FALSE, FALSE))])

RetranslateCheckpoint(js, id, improvedCues) ==
    updateJobStatus(js, id,
        [status |-> "waiting_for_approval", stage |-> "user_review", progress |-> 60,
         message |-> "Improved translation ready for review",
         result |-> Some(Result(improvedCues, TRUE, FALSE, FALSE, FALSE))])

\* processJobFinalize: safeConfig
DefaultConfig == [renderSoft |-> TRUE, renderBurn |-> TRUE, burnConfig |-> DefaultBurnConfig]
SafeConfig(config) == IF config = None THEN DefaultConfig ELSE config[1]

\* The catch block reporting a finished job
FinalizeFailed_Degraded(js, id, message) ==
    updateJobStatus(js, id, [status |-> "done", message |-> "Rendering failed",
                             error |-> ErrText(message)])

FinalizeFailed(js, id, message) ==
    updateJobStatus(js, id, [status |-> "error", message |-> "Rendering failed",
                             error |-> ErrText(message)])

RenderSoftUpdate(js, id) ==
    updateJobStatus(js, id, [status |-> "processing", stage |-> "render_soft", progress |-> 85,
                             message |-> "Muxing soft subtitles stream..."])

RenderBurnUpdate(js, id) ==
    updateJobStatus(js, id, [stage |-> "render_burn", progress |-> 90,
                             message |-> "Burning subtitles (this takes time)..."])

\* The manifest linking every output file found on disk
Manifest_ByExistence(previewCues, cfg, softExists, burnExists) ==
    Result(previewCues, FALSE, TRUE, softExists, burnExists)

\* The result manifest of a finished render stage: srtUrl always, a video URL
\* for an enabled operation whose output file exists
Manifest(previewCues, cfg, softExists, burnExists) ==
    Result(previewCues, FALSE, TRUE, cfg.renderSoft /\ softExists, cfg.renderBurn /\ burnExists)

\* STEP 6 reusing the cues already in the registry instead of re-reading the file
FinalizeComplete_Snapshot(js, id, cfg, file, softExists, burnExists) ==
    IF file = None
    THEN FinalizeFailed(js, id, "ENOENT: no such file or directory")
    ELSE updateJobStatus(js, id,
            [status |-> "done", stage |-> "complete", progress |-> 100,
             message |-> "Processing complete!",
             result |-> Some(Manifest(IF HasResult(js[id]) THEN js[id].result[1].previewCues
                                                           ELSE <<>>,
                                      cfg, softExists, burnExists))])

\* processJobFinalize, STEP 6: re-read the file, build the manifest, mark done
FinalizeComplete(js, id, cfg, file, softExists, burnExists) ==
    IF file = None
    THEN FinalizeFailed(js, id, "ENOENT: no such file or directory")
    ELSE updateJobStatus(js, id,
            [status |-> "done", stage |-> "complete", progress |-> 100,
             message |-> "Processing complete!",
             result |-> Some(Manifest(ReadCues(file[1]), cfg, softExists, burnExists))])

\* The messages of the errors the two ffmpeg operations raise
SoftFailedText == "Soft sub failed: ffmpeg exited with code 1"
BurnFailedText == "Burn sub failed: ffmpeg exited with code 1"

\* A suspended invocation: the operation it awaits and its safeConfig
Task(pc, cfg) == [pc |-> pc, cfg |-> cfg]
RenderTasks == {Task(pc, cfg) : pc \in {"soft", "burn"}, cfg \in Configs}

RendersInFlight(id) == BagCardinality(renders[id])

----------------------------------------------------------------------------
(* History variables *)

Track(js) ==
    [j \in DOMAIN reviewed |-> reviewed[j] \/
                      (j \in DOMAIN js /\ js[j].status \in {"waiting_for_approval", "done"})]

----------------------------------------------------------------------------
(* Initial state: an empty registry and an empty data directory *)

EmptyMap == [j \in {} |-> None]

CodecIdle == [pc |-> "idle", cues |-> <<>>, bad |-> <<>>, at |-> 0, text |-> <<>>, parsed |-> <<>>]

ResolveIdle ==
    [pc |-> "idle", config |-> None, safeConfig |-> None, style |-> None,
     srtPath |-> <<>>, escaped |-> <<>>]

StreamIdle == [pc |-> "idle", written |-> <<>>, pending |-> <<>>, updates |-> <<>>]

MergesIdle == [log |-> [j \in JobIds |-> <<>>], unknown |-> FALSE]

\* The page before a job is submitted: no jobId, no interval, no jobStatus
ClientIdle ==
    [jobId |-> None, polling |-> FALSE, seen |-> Absent, inflight |-> EmptyBag,
     pc |-> "idle", config |-> None, before |-> 0, resumed |-> FALSE]

HttpIdle == [dirs |-> {}, reply |-> None]

\* The server just started, able to hold jobs with the ids in ids
EmptyServerOn(ids) ==
    /\ jobs = EmptyMap
    /\ srtFile = [j \in ids |-> None]
    /\ inputSrt = [j \in ids |-> None]
    /\ softFile = [j \in ids |-> FALSE]
    /\ burnFile = [j \in ids |-> FALSE]
    /\ aiTask = [j \in ids |-> NoAi]
    /\ retrTask = [j \in ids |-> NoRetr]
    /\ renders = [j \in ids |-> EmptyBag]
    /\ lastEdit = [j \in ids |-> None]
    /\ reviewed = [j \in ids |-> FALSE]
    /\ requests = [j \in ids |-> [resume |-> 0, update |-> 0]]

EmptyServer == EmptyServerOn(JobIds)

Init ==
    /\ EmptyServer
    /\ codec = CodecIdle
    /\ resolve = ResolveIdle
    /\ stream = StreamIdle
    /\ merges = MergesIdle
    /\ client = ClientIdle
    /\ http = HttpIdle

----------------------------------------------------------------------------
(* Requests: server/index.ts *)

\* POST /api/upload: a fresh id, the job is stored and processJobInitial runs
\* up to its await, which spawns the subprocess
Upload(id, outputFormat) ==
    /\ id \notin DOMAIN jobs
    /\ jobs' = jobs @@ (id :> NewJob("queued", "upload", 0, None))
    /\ aiTask' = [aiTask EXCEPT ![id] = [NoAi EXCEPT !.pc = "spawned",
                                                     !.outputFormat = outputFormat]]
    /\ reviewed' = Track(jobs')
    /\ UNCHANGED <<srtFile, inputSrt, softFile, burnFile, retrTask, renders, lastEdit, requests, codec, resolve, stream, merges, client, http>>

\* POST /api/retranslate: the job is stored and processJobRetranslate runs up
\* to its await on the timer
Retranslate(id, outputFormat, srt) ==
    /\ id \notin DOMAIN jobs
    /\ inputSrt' = [inputSrt EXCEPT ![id] = Some(srt)]
    /\ jobs' = updateJobStatus(
                   jobs @@ (id :> NewJob("queued", "translate", 30, None)), id,
                   [status |-> "processing", stage |-> "translate", progress |-> 40,
                    message |-> "Rerunning translation step..."])
    /\ retrTask' = [retrTask EXCEPT ![id] = [pc |-> "timer", outputFormat |-> outputFormat,
                                             initialCues |-> ReadCues(srt)]]
    /\ reviewed' = Track(jobs')
    /\ UNCHANGED <<srtFile, softFile, burnFile, aiTask, renders, lastEdit, requests, codec, resolve, stream, merges, client, http>>

\* POST /api/upload-existing: the job starts at the review checkpoint
UploadExisting(id, srt) ==
    /\ id \notin DOMAIN jobs
    /\ srtFile' = [srtFile EXCEPT ![id] = Some(srt)]
    /\ jobs' = jobs @@ (id :> NewJob("waiting_for_approval", "user_review", 60,
                                     Some(Result(ReadCues(srt), TRUE, FALSE, FALSE, FALSE))))
    /\ reviewed' = Track(jobs')
    /\ UNCHANGED <<inputSrt, softFile, burnFile, aiTask, retrTask, renders, lastEdit, requests, codec, resolve, stream, merges, client, http>>

\* The update handler writing the file only
SetPreview_Skipped(job, cues) == job

\* job.result.previewCues = cues, when the job has a result
SetPreview(job, cues) ==
    IF HasResult(job)
    THEN [job EXCEPT !.result = Some([@[1] EXCEPT !.previewCues = cues])]
    ELSE job

\* POST /api/job/:jobId/update: one synchronous handler
UpdateCues(id, body) ==
    /\ id \in DOMAIN jobs
    /\ requests[id].update < MaxUpdates
    /\ requests' = [requests EXCEPT ![id].update = @ + 1]
    /\ IF body = None
       THEN \* buildSrt throws on the missing array: 500, nothing written
            UNCHANGED <<jobs, srtFile, lastEdit>>
       ELSE /\ srtFile' = [srtFile EXCEPT ![id] = Some(buildSrt(body[1]))]
            /\ jobs' = [jobs EXCEPT ![id] = SetPreview(@, body[1])]
            /\ lastEdit' = [lastEdit EXCEPT ![id] = body]
    /\ reviewed' = Track(jobs')
    /\ UNCHANGED <<inputSrt, softFile, burnFile, aiTask, retrTask, renders, codec, resolve, stream, merges, client, http>>

\* processJobFinalize from its entry to its first await (or to its end when
\* no operation is enabled): the new registry and the suspended invocation, if any
FinalizeStart(js, id, cfg, file, softExists, burnExists) ==
    IF cfg.renderSoft
    THEN [jobs |-> RenderSoftUpdate(js, id), task |-> SetToBag({Task("soft", cfg)})]
    ELSE IF cfg.renderBurn
         THEN [jobs |-> RenderBurnUpdate(js, id), task |-> SetToBag({Task("burn", cfg)})]
         ELSE [jobs |-> FinalizeComplete(js, id, cfg, file, softExists, burnExists),
               task |-> EmptyBag]

\* POST /api/job/:jobId/resume
Resume(id, config) ==
    /\ id \in DOMAIN jobs
    /\ requests[id].resume < MaxResumes
    /\ requests' = [requests EXCEPT ![id].resume = @ + 1]
    /\ LET start == FinalizeStart(jobs, id, SafeConfig(config), srtFile[id],
                                  softFile[id], burnFile[id])
       IN  /\ jobs' = start.jobs
           /\ renders' = [renders EXCEPT ![id] = @ (+) start.task]
    /\ reviewed' = Track(jobs')
    /\ UNCHANGED <<srtFile, inputSrt, softFile, burnFile, aiTask, retrTask, lastEdit, codec, resolve, stream, merges, client, http>>

----------------------------------------------------------------------------
(* Callbacks of the AI stage: processJobInitial and processJobRetranslate *)

AiRunning(id) == aiTask[id].pc \in {"spawned", "running"}

\* python.on('error'): the interpreter could not be started
AiSpawnError(id) ==
    /\ aiTask[id].pc = "spawned"
    /\ aiTask' = [aiTask EXCEPT ![id] = [NoAi EXCEPT !.pc = "rejected"]]
    /\ jobs' = InitialFailed(jobs, id, SpawnFailedText)
    /\ reviewed' = Track(jobs')
    /\ UNCHANGED <<srtFile, inputSrt, softFile, burnFile, retrTask, renders, lastEdit, requests, codec, resolve, stream, merges, client, http>>

\* python.stdout.on('data')
AiStdout(id, chunk) ==
    /\ AiRunning(id)
    /\ aiTask' = [aiTask EXCEPT ![id].pc = "running"]
    /\ jobs' = StdoutData(jobs, id, chunk)
    /\ reviewed' = Track(jobs')
    /\ UNCHANGED <<srtFile, inputSrt, softFile, burnFile, retrTask, renders, lastEdit, requests, codec, resolve, stream, merges, client, http>>

\* python.stderr.on('data')
AiStderr(id, text) ==
    /\ AiRunning(id)
    /\ aiTask[id].chunks < MaxStderr
    /\ aiTask' = [aiTask EXCEPT ![id] = [@ EXCEPT !.pc = "running",
                                                  !.errorOutput = @ \o text,
                                                  !.chunks = @ + 1]]
    /\ UNCHANGED <<jobs, srtFile, inputSrt, softFile, burnFile, retrTask, renders,
                   lastEdit, reviewed, requests, codec, resolve, stream, merges, client, http>>

\* The subprocess writes its output file
AiWriteSrt(id, text) ==
    /\ AiRunning(id)
    /\ aiTask' = [aiTask EXCEPT ![id].pc = "running"]
    /\ srtFile' = [srtFile EXCEPT ![id] = Some(text)]
    /\ lastEdit' = [lastEdit EXCEPT ![id] = None]
    /\ UNCHANGED <<jobs, inputSrt, softFile, burnFile, retrTask, renders, reviewed, requests, codec, resolve, stream, merges, client, http>>

\* python.on('close') and the rest of processJobInitial, which runs with it
AiClose(id, code) ==
    /\ AiRunning(id)
    /\ aiTask' = [aiTask EXCEPT ![id] =
                      [NoAi EXCEPT !.pc = IF code # 0 THEN "rejected" ELSE "resolved"]]
    /\ jobs' = IF code # 0
               THEN InitialFailed(jobs, id, ServiceFailedText(ErrText(aiTask[id].errorOutput)))
               ELSE InitialCheckpoint(jobs, id, srtFile[id])
    /\ reviewed' = Track(jobs')
    /\ UNCHANGED <<srtFile, inputSrt, softFile, burnFile, retrTask, renders, lastEdit, requests, codec, resolve, stream, merges, client, http>>

\* The timer of processJobRetranslate fires: improve, write, checkpoint
RetranslateTimer(id) ==
    /\ retrTask[id].pc = "timer"
    /\ LET improvedCues == ImprovedCues(retrTask[id].initialCues, retrTask[id].outputFormat)
       IN  /\ srtFile' = [srtFile EXCEPT ![id] = Some(buildSrt(improvedCues))]
           /\ jobs' = RetranslateCheckpoint(jobs, id, improvedCues)
    /\ retrTask' = [retrTask EXCEPT ![id] = [NoRetr EXCEPT !.pc = "done"]]
    /\ lastEdit' = [lastEdit EXCEPT ![id] = None]
    /\ reviewed' = Track(jobs')
    /\ UNCHANGED <<inputSrt, softFile, burnFile, aiTask, renders, requests, codec, resolve, stream, merges, client, http>>

----------------------------------------------------------------------------
(* Callbacks of the render stage: processJobFinalize *)

\* ffmpeg 'end' of the operation invocation k is suspended on, and the code
\* that runs with it.  ffmpeg reads bilingual.srt, so it cannot end
\* successfully when the file does not exist.
RenderEnd(id, t) ==
    /\ BagIn(t, renders[id])
    /\ srtFile[id] # None
    /\ IF t.pc = "soft"
       THEN /\ softFile' = [softFile EXCEPT ![id] = TRUE]
            /\ UNCHANGED burnFile
            /\ IF t.cfg.renderBurn
               THEN /\ jobs' = RenderBurnUpdate(jobs, id)
                    /\ renders' = [renders EXCEPT ![id] =
                                      (@ (-) SetToBag({t})) (+) SetToBag({Task("burn", t.cfg)})]
               ELSE /\ jobs' = FinalizeComplete(jobs, id, t.cfg, srtFile[id], TRUE, burnFile[id])
                    /\ renders' = [renders EXCEPT ![id] = @ (-) SetToBag({t})]
       ELSE /\ burnFile' = [burnFile EXCEPT ![id] = TRUE]
            /\ UNCHANGED softFile
            /\ jobs' = FinalizeComplete(jobs, id, t.cfg, srtFile[id], softFile[id], TRUE)
            /\ renders' = [renders EXCEPT ![id] = @ (-) SetToBag({t})]
    /\ reviewed' = Track(jobs')
    /\ UNCHANGED <<srtFile, inputSrt, aiTask, retrTask, lastEdit, requests, codec, resolve, stream, merges, client, http>>

\* ffmpeg 'error' of that operation; a partial output file may be left behind
RenderError(id, t, partial) ==
    /\ BagIn(t, renders[id])
    /\ jobs' = FinalizeFailed(jobs, id,
                  IF t.pc = "soft" THEN SoftFailedText ELSE BurnFailedText)
    /\ softFile' = [softFile EXCEPT ![id] = @ \/ (partial /\ t.pc = "soft")]
    /\ burnFile' = [burnFile EXCEPT ![id] = @ \/ (partial /\ t.pc = "burn")]
    /\ renders' = [renders EXCEPT ![id] = @ (-) SetToBag({t})]
    /\ reviewed' = Track(jobs')
    /\ UNCHANGED <<srtFile, inputSrt, aiTask, retrTask, lastEdit, requests, codec, resolve, stream, merges, client, http>>

----------------------------------------------------------------------------
(* The server *)

Next ==
    \/ \E id \in JobIds, f \in OutputFormats : Upload(id, f)
    \/ \E id \in JobIds, f \in OutputFormats, srt \in UploadedSrts : Retranslate(id, f, srt)
    \/ \E id \in JobIds, srt \in UploadedSrts : UploadExisting(id, srt)
    \/ \E id \in JobIds, body \in UpdateBodies : UpdateCues(id, body)
    \/ \E id \in JobIds, config \in ResumeBodies : Resume(id, config)
    \/ \E id \in JobIds : AiSpawnError(id)
    \/ \E id \in JobIds, chunk \in StdoutChunks : AiStdout(id, chunk)
    \/ \E id \in JobIds, text \in StderrTexts : AiStderr(id, text)
    \/ \E id \in JobIds, text \in AiFiles : AiWriteSrt(id, text)
    \/ \E id \in JobIds, code \in {0, 1} : AiClose(id, code)
    \/ \E id \in JobIds : RetranslateTimer(id)
    \/ \E id \in JobIds, t \in RenderTasks : RenderEnd(id, t)
    \/ \E id \in JobIds, t \in RenderTasks, partial \in BOOLEAN : RenderError(id, t, partial)

Spec == Init /\ [][Next]_vars

\* The external invocations of job id that have started come to an end: the
\* subprocess fails to start or closes, the timer fires, ffmpeg ends or fails
AiSettles(id) == AiSpawnError(id) \/ \E code \in {0, 1} : AiClose(id, code)

RenderSettles(id) ==
    \E t \in RenderTasks : RenderEnd(id, t) \/ \E partial \in BOOLEAN : RenderError(id, t, partial)

\* The requests that submit or resume a job and the callbacks of its stages,
\* with every render configuration and one subtitle file, output format and
\* stdout chunk.  The update request is left out: its handler reads and writes
\* no status and neither starts nor ends an invocation.
LiveNext ==
    \/ \E id \in JobIds : Upload(id, "bilingual")
    \/ \E id \in JobIds : Retranslate(id, "bilingual", buildSrt(<<Cue(T1, T2, Hi, Ni)>>))
    \/ \E id \in JobIds : UploadExisting(id, buildSrt(<<Cue(T1, T2, Hi, Ni)>>))
    \/ \E id \in JobIds, config \in ResumeBodies : Resume(id, config)
    \/ \E id \in JobIds : AiSpawnError(id)
    \/ \E id \in JobIds : AiStdout(id, <<TranslateLine>>)
    \/ \E id \in JobIds, text \in StderrTexts : AiStderr(id, text)
    \/ \E id \in JobIds, text \in AiFiles : AiWriteSrt(id, text)
    \/ \E id \in JobIds, code \in {0, 1} : AiClose(id, code)
    \/ \E id \in JobIds : RetranslateTimer(id)
    \/ \E id \in JobIds, t \in RenderTasks : RenderEnd(id, t)
    \/ \E id \in JobIds, t \in RenderTasks, partial \in BOOLEAN : RenderError(id, t, partial)

LiveSpec ==
    /\ Init /\ [][LiveNext]_vars
    /\ \A id \in JobIds : WF_vars(AiSettles(id))
    /\ \A id \in JobIds : WF_vars(RetranslateTimer(id))
    /\ \A id \in JobIds : WF_vars(RenderSettles(id))

----------------------------------------------------------------------------
(* Codec harness: inputs of the round trip *)

Times == {<<"0", "1">>, <<"0", "2">>}
Texts == {<<>>, <<"H", "i">>, <<"n", "i">>}

Cues == {Cue(s, e, en, zh) : s \in Times, e \in Times, en \in Texts, zh \in Texts}

CueSeqs == UNION {[1..n -> Cues] : n \in 0..MaxCues}

CodecInit ==
    /\ EmptyServer
    /\ resolve = ResolveIdle
    /\ stream = StreamIdle
    /\ merges = MergesIdle
    /\ client = ClientIdle
    /\ http = HttpIdle
    /\ codec \in {[CodecIdle EXCEPT !.pc = "input", !.cues = c] : c \in CueSeqs}

CodecSerialize ==
    /\ codec.pc = "input"
    /\ codec' = [codec EXCEPT !.pc = "serialized", !.text = buildSrt(codec.cues)]
    /\ UNCHANGED <<pipelineVars, resolve, stream, merges, client, http>>

CodecParse ==
    /\ codec.pc = "serialized"
    /\ codec' = [codec EXCEPT !.pc = "parsed", !.parsed = parseSrt(codec.text)]
    /\ UNCHANGED <<pipelineVars, resolve, stream, merges, client, http>>

CodecNext == CodecSerialize \/ CodecParse

CodecSpec == CodecInit /\ [][CodecNext]_vars

----------------------------------------------------------------------------
(* Codec harness: a malformed block among the blocks of a serialized file *)

\* Blocks parseSrt skips: one line, or a second line without '-->'
MalformedBlocks ==
    { <<"x">>,
      T1 \o Arrow \o T2,
      <<"7", "\n">> \o Hi,
      <<"7", "\n">> \o T1 \o <<" ", "-", ">", " ">> \o T2 \o NL \o Hi \o NL \o Ni }

SkipCues == {Cue(T1, T2, en, zh) : en \in Texts, zh \in Texts}

SkipCueSeqs == UNION {[1..n -> SkipCues] : n \in 0..MaxCues}

\* seq with x inserted after its first k elements
InsertAt(seq, k, x) == SubSeq(seq, 1, k) \o <<x>> \o SubSeq(seq, k + 1, Len(seq))

SkipInit ==
    /\ EmptyServer
    /\ resolve = ResolveIdle
    /\ stream = StreamIdle
    /\ merges = MergesIdle
    /\ client = ClientIdle
    /\ http = HttpIdle
    /\ codec \in {[CodecIdle EXCEPT !.pc = "input", !.cues = c, !.bad = b, !.at = k] :
                      c \in SkipCueSeqs, b \in MalformedBlocks, k \in 0..MaxCues}
    /\ codec.at <= Len(codec.cues)

\* The file: the blocks buildSrt writes for the cues, and the malformed block
\* among them, separated by blank lines
SkipAssemble ==
    /\ codec.pc = "input"
    /\ LET blocks == [k \in 1..Len(codec.cues) |-> BuildBlock(codec.cues[k], k - 1)]
       IN  codec' = [codec EXCEPT !.pc = "serialized",
                                  !.text = Join(InsertAt(blocks, codec.at, codec.bad), NL \o NL)]
    /\ UNCHANGED <<pipelineVars, resolve, stream, merges, client, http>>

SkipNext == SkipAssemble \/ CodecParse

SkipSpec == SkipInit /\ [][SkipNext]_vars

----------------------------------------------------------------------------
(* Config harness: a resume body pushed through safeConfig and styleParts *)

\* An object with the fields D of record r: the other fields are undefined
Restrict(r, D) == [f \in D |-> r[f]]

\* Burn styles and configs a caller may send, with any subset of the fields
PartialBurnConfigs ==
    {Restrict([fontName |-> "Noto Sans", fontSize |-> 24, backColour |-> "&H00000000"], D) :
        D \in SUBSET {"fontName", "fontSize", "backColour"}}

PartialConfigs ==
    {Restrict([renderSoft |-> s, renderBurn |-> b, burnConfig |-> c], D) :
        s \in BOOLEAN, b \in BOOLEAN, c \in PartialBurnConfigs,
        D \in SUBSET {"renderSoft", "renderBurn", "burnConfig"}}

\* if (safeConfig.renderBurn): an undefined flag is falsy
Enabled(cfg, flag) == flag \in DOMAIN cfg /\ cfg[flag]

\* c.field || fallback, for a string field
StringOr(c, field, fallback) ==
    IF field \in DOMAIN c /\ c[field] # "" THEN c[field] ELSE fallback

\* ${c.field}: an undefined number is interpolated as it is
NumberOf(c, field) == IF field \in DOMAIN c THEN c[field] ELSE Undefined

\* styleParts: None when reading a field of the undefined burnConfig throws
StyleParts(cfg) ==
    IF "burnConfig" \notin DOMAIN cfg THEN None
    ELSE Some([FontName |-> StringOr(cfg.burnConfig, "fontName", "Arial"),
               FontSize |-> NumberOf(cfg.burnConfig, "fontSize"),
               BackColour |-> StringOr(cfg.burnConfig, "backColour", "&H80000000")])

ResolveInit ==
    /\ EmptyServer
    /\ codec = CodecIdle
    /\ stream = StreamIdle
    /\ merges = MergesIdle
    /\ client = ClientIdle
    /\ http = HttpIdle
    /\ resolve \in {[ResolveIdle EXCEPT !.pc = "input", !.config = c] :
                       c \in {None} \cup {Some(p) : p \in PartialConfigs}}

\* processJobFinalize entry: safeConfig
ResolveConfig ==
    /\ resolve.pc = "input"
    /\ resolve' = [resolve EXCEPT !.pc = "resolved",
                                  !.safeConfig = Some(SafeConfig(resolve.config))]
    /\ UNCHANGED <<pipelineVars, codec, stream, merges, client, http>>

\* STEP 5 with hard-burn enabled: the style string is built
ResolveStyle ==
    /\ resolve.pc = "resolved"
    /\ Enabled(resolve.safeConfig[1], "renderBurn")
    /\ LET style == StyleParts(resolve.safeConfig[1])
       IN  resolve' = [resolve EXCEPT !.pc = IF style = None THEN "threw" ELSE "styled",
                                      !.style = style]
    /\ UNCHANGED <<pipelineVars, codec, stream, merges, client, http>>

\* STEP 5 with hard-burn not enabled: skipped
ResolveSkip ==
    /\ resolve.pc = "resolved"
    /\ ~Enabled(resolve.safeConfig[1], "renderBurn")
    /\ resolve' = [resolve EXCEPT !.pc = "skipped"]
    /\ UNCHANGED <<pipelineVars, codec, stream, merges, client, http>>

ResolveNext == ResolveConfig \/ ResolveStyle \/ ResolveSkip

ResolveSpec == ResolveInit /\ [][ResolveNext]_vars

----------------------------------------------------------------------------
(* Config harness: a subtitle path pushed through the escaping of STEP 5 *)

\* String.prototype.replace with a global one-character pattern
RECURSIVE ReplaceChar(_, _, _)
ReplaceChar(s, c, to) ==
    IF s = <<>> THEN <<>>
    ELSE (IF Head(s) = c THEN to ELSE <<Head(s)>>) \o ReplaceChar(Tail(s), c, to)

\* The escaping that leaves backslashes as they are
EscapePath_ColonsOnly(srtPath) == ReplaceChar(srtPath, ":", <<"\\", ":">>)

\* srtPath.replace(/\\/g, '/').replace(/:/g, '\\:')
EscapePath(srtPath) ==
    ReplaceChar(ReplaceChar(srtPath, "\\", <<"/">>), ":", <<"\\", ":">>)

\* Paths over a letter, the two separators and the colon
PathChars == {"C", "/", "\\", ":"}
Paths == UNION {[1..n -> PathChars] : n \in 0..MaxPath}

EscapeInit ==
    /\ EmptyServer
    /\ codec = CodecIdle
    /\ stream = StreamIdle
    /\ merges = MergesIdle
    /\ client = ClientIdle
    /\ http = HttpIdle
    /\ resolve \in {[ResolveIdle EXCEPT !.pc = "path", !.srtPath = p] : p \in Paths}

\* STEP 5: escapedSrtPath
EscapeStep ==
    /\ resolve.pc = "path"
    /\ resolve' = [resolve EXCEPT !.pc = "escaped", !.escaped = EscapePath(resolve.srtPath)]
    /\ UNCHANGED <<pipelineVars, codec, stream, merges, client, http>>

EscapeSpec == EscapeInit /\ [][EscapeStep]_vars

----------------------------------------------------------------------------
(* Stdout harness: the lines a subprocess writes, each ended by a newline,
   reach the 'data' handler in chunks cut at any place.  A line is two
   fragments and its newline; JSON.parse of one fragment alone throws. *)

Unit(part, line) == [part |-> part, line |-> line]

RECURSIVE Units(_)
Units(lines) ==
    IF lines = <<>> THEN <<>>
    ELSE <<Unit("head", Head(lines)), Unit("tail", Head(lines)), Unit("nl", Head(lines))>>
             \o Units(Tail(lines))

WrittenLines ==
    UNION {[1..n -> {LogLine, TranslateLine, SrtLine}] : n \in 1..MaxLines}

\* data.toString().split('\n')
RECURSIVE PiecesFrom(_, _)
PiecesFrom(units, cur) ==
    IF units = <<>> THEN <<cur>>
    ELSE IF Head(units).part = "nl"
         THEN <<cur>> \o PiecesFrom(Tail(units), <<>>)
         ELSE PiecesFrom(Tail(units), Append(cur, Head(units)))

\* JSON.parse(line) of a piece that is not empty: a whole line gives its
\* value, a fragment throws
ParsePiece(piece) == IF Len(piece) = 2 THEN piece[1].line ELSE LogLine

\* The pieces of a chunk the loop does not skip, parsed
ChunkLines(units) ==
    LET pieces == SelectSeq(PiecesFrom(units, <<>>), LAMBDA p : p # <<>>)
    IN  [k \in 1..Len(pieces) |-> ParsePiece(pieces[k])]

\* The updateJob call the loop body makes for a line, seen on a registry
\* holding one job whose fields no line carries
ProbeJob == NewJob("probe", "probe", 0 - 2, None)

UpdateOf(line) ==
    LET after == StdoutLine("probe" :> ProbeJob, "probe", line)["probe"]
    IN  IF after = ProbeJob THEN <<>>
        ELSE <<[stage |-> after.stage, progress |-> after.progress, message |-> after.message]>>

RECURSIVE UpdatesOf(_)
UpdatesOf(lines) ==
    IF lines = <<>> THEN <<>> ELSE UpdateOf(Head(lines)) \o UpdatesOf(Tail(lines))

StreamInit ==
    /\ EmptyServer
    /\ codec = CodecIdle
    /\ resolve = ResolveIdle
    /\ merges = MergesIdle
    /\ client = ClientIdle
    /\ http = HttpIdle
    /\ stream \in {[pc |-> "open", written |-> w, pending |-> Units(w), updates |-> <<>>] :
                       w \in WrittenLines}

\* python.stdout.on('data') with the next n units of the stream as its chunk
StreamData(id, n) ==
    /\ AiRunning(id)
    /\ n \in 1..Len(stream.pending)
    /\ LET chunk == ChunkLines(SubSeq(stream.pending, 1, n))
       IN  /\ jobs' = StdoutData(jobs, id, chunk)
           /\ stream' = [stream EXCEPT !.pending = SubSeq(@, n + 1, Len(@)),
                                        !.updates = @ \o UpdatesOf(chunk)]
    /\ aiTask' = [aiTask EXCEPT ![id].pc = "running"]
    /\ reviewed' = Track(jobs')
    /\ UNCHANGED <<srtFile, inputSrt, softFile, burnFile, retrTask, renders, lastEdit,
                   requests, codec, resolve, merges, client, http>>

StreamNext ==
    \/ \E id \in JobIds : Upload(id, "bilingual")
    \/ \E id \in JobIds, n \in 1..(3 * MaxLines) : StreamData(id, n)

StreamSpec == StreamInit /\ [][StreamNext]_vars

----------------------------------------------------------------------------
(* Registry harness: create, updateJobStatus and the in-place preview write
   called in every order on one stored job, and updateJobStatus called with
   ids the registry does not hold *)

PairIds == {"j1", "j2"}

\* Partial<Job> objects the stage callbacks pass to updateJob
RegistryPartials ==
    { [stage |-> "translate", progress |-> 40, message |-> "Translating"],
      [status |-> "waiting_for_approval", stage |-> "user_review", progress |-> 60,
       message |-> "Waiting for subtitle review",
       result |-> Some(Result(<<Cue(T1, T2, Hi, Ni)>>, TRUE, FALSE, FALSE, FALSE))],
      [stage |-> "render_burn", progress |-> 90,
       message |-> "Burning subtitles (this takes time)..."],
      [status |-> "error", message |-> "Rendering failed", error |-> BurnFailedText] }

\* Job objects the handlers store: an uploaded video, an uploaded subtitle file
RegistryJobs ==
    { NewJob("queued", "upload", 0, None),
      NewJob("waiting_for_approval", "user_review", 60,
             Some(Result(<<Cue(T1, T2, Hi, <<>>)>>, TRUE, FALSE, FALSE, FALSE))) }

MergeCall(partial) == [kind |-> "merge", partial |-> partial]
PreviewCall(cues) == [kind |-> "preview", cues |-> cues]

\* jobs.set(jobId, newJob)
RegistryCreate(id, job) ==
    /\ id \notin DOMAIN jobs
    /\ jobs' = jobs @@ (id :> job)
    /\ merges' = [merges EXCEPT !.log[id] = <<MergeCall(job)>>]
    /\ reviewed' = Track(jobs')
    /\ UNCHANGED <<srtFile, inputSrt, softFile, burnFile, aiTask, retrTask, renders,
                   lastEdit, requests, codec, resolve, stream, client, http>>

\* updateJobStatus(id, partial), for any id
RegistryMerge(id, partial) ==
    /\ id \in DOMAIN jobs => Len(merges.log[id]) <= MaxMerges
    /\ jobs' = updateJobStatus(jobs, id, partial)
    /\ merges' = IF id \in DOMAIN jobs
                 THEN [merges EXCEPT !.log[id] = Append(@, MergeCall(partial))]
                 ELSE [merges EXCEPT !.unknown = TRUE]
    /\ reviewed' = Track(jobs')
    /\ UNCHANGED <<srtFile, inputSrt, softFile, burnFile, aiTask, retrTask, renders,
                   lastEdit, requests, codec, resolve, stream, client, http>>

\* if (job.result) job.result.previewCues = cues, on the stored job object
RegistryPreview(id, cues) ==
    /\ id \in DOMAIN jobs
    /\ Len(merges.log[id]) <= MaxMerges
    /\ jobs' = [jobs EXCEPT ![id] = SetPreview(@, cues)]
    /\ merges' = [merges EXCEPT !.log[id] = Append(@, PreviewCall(cues))]
    /\ reviewed' = Track(jobs')
    /\ UNCHANGED <<srtFile, inputSrt, softFile, burnFile, aiTask, retrTask, renders,
                   lastEdit, requests, codec, resolve, stream, client, http>>

RegistryNext ==
    \/ \E id \in JobIds, job \in RegistryJobs : RegistryCreate(id, job)
    \/ \E id \in PairIds, partial \in RegistryPartials : RegistryMerge(id, partial)
    \/ \E id \in JobIds, cues \in EditCues : RegistryPreview(id, cues)

RegistrySpec == Init /\ [][RegistryNext]_vars

----------------------------------------------------------------------------
(* Two jobs on one server, with one input of each kind: the first job gets
   every request and callback, the second an upload, its AI stage and edits *)

PairSrt == buildSrt(<<Cue(T1, T2, Hi, Ni)>>)
PairEdit == <<Cue(T1, T2, <<>>, Ni)>>
PairConfig == [renderSoft |-> TRUE, renderBurn |-> FALSE, burnConfig |-> DefaultBurnConfig]

PairInit ==
    /\ EmptyServerOn(PairIds)
    /\ codec = CodecIdle
    /\ resolve = ResolveIdle
    /\ stream = StreamIdle
    /\ merges = MergesIdle
    /\ client = ClientIdle
    /\ http = HttpIdle

\* A request or a callback addressed to job id
PairStep(id) ==
    \/ Upload(id, "bilingual")
    \/ Retranslate(id, "bilingual", PairSrt)
    \/ UploadExisting(id, PairSrt)
    \/ UpdateCues(id, Some(PairEdit))
    \/ Resume(id, Some(PairConfig))
    \/ AiSpawnError(id)
    \/ AiStdout(id, <<TranslateLine>>)
    \/ \E text \in AiFiles : AiWriteSrt(id, text)
    \/ \E code \in {0, 1} : AiClose(id, code)
    \/ RetranslateTimer(id)
    \/ \E t \in RenderTasks : RenderEnd(id, t)
    \/ \E t \in RenderTasks : RenderError(id, t, FALSE)

\* The requests and callbacks the second job gets
SecondStep(id) ==
    \/ Upload(id, "bilingual")
    \/ UpdateCues(id, Some(PairEdit))
    \/ AiStdout(id, <<TranslateLine>>)
    \/ \E text \in AiFiles : AiWriteSrt(id, text)
    \/ \E code \in {0, 1} : AiClose(id, code)

PairNext == PairStep("j1") \/ SecondStep("j2")

PairSpec == PairInit /\ [][PairNext]_vars

----------------------------------------------------------------------------
(* The page of client/src/App.tsx with the server: it submits one job, polls
   its status on an interval and sends the resume request of the editor.  A
   response arrives any time after the server has sent it. *)

\* setJobId(res.data.jobId) and the effect that starts the interval
ClientSetJob(id) ==
    /\ id \in DOMAIN jobs
    /\ client.jobId = None
    /\ client' = [client EXCEPT !.jobId = Some(id), !.polling = TRUE]
    /\ UNCHANGED <<pipelineVars, codec, resolve, stream, merges, http>>

\* A tick of the interval: pollStatus sends GET /api/status/:jobId and the
\* server answers with the job as it is
PollSend(id) ==
    /\ client.polling
    /\ client.jobId = Some(id)
    /\ BagCardinality(client.inflight) < MaxPolls
    /\ client' = [client EXCEPT !.inflight = @ (+) SetToBag({jobs[id].status})]
    /\ UNCHANGED <<pipelineVars, codec, resolve, stream, merges, http>>

\* The response of a status request arrives: setJobStatus, and the interval
\* is cleared when the status is done, error or waiting_for_approval
PollReceive(s) ==
    /\ BagIn(s, client.inflight)
    /\ client' = [client EXCEPT
                      !.inflight = @ (-) SetToBag({s}),
                      !.seen = s,
                      !.polling = @ /\ s \notin {"done", "error", "waiting_for_approval"}]
    /\ UNCHANGED <<pipelineVars, codec, resolve, stream, merges, http>>

\* handleEditorContinue(config), called by the editor, which is shown while
\* jobStatus.status is waiting_for_approval: the resume request is sent
ContinueClick(id, config) ==
    /\ client.jobId = Some(id)
    /\ client.seen = "waiting_for_approval"
    /\ client.pc = "idle"
    /\ requests[id].resume < MaxResumes
    /\ client' = [client EXCEPT !.pc = "posting", !.config = Some(config),
                                !.before = requests[id].resume]
    /\ UNCHANGED <<pipelineVars, codec, resolve, stream, merges, http>>

\* The server handles the resume request of the page
ResumeHandled(id) ==
    /\ client.pc = "posting"
    /\ client.jobId = Some(id)
    /\ requests[id].resume = client.before
    /\ Resume(id, client.config)

\* The response of the resume request arrives: jobStatus is set to processing
\* and resumePolling starts the interval when there is none
ContinueDone(id) ==
    /\ client.pc = "posting"
    /\ client.jobId = Some(id)
    /\ requests[id].resume > client.before
    /\ client' = [client EXCEPT !.pc = "idle", !.seen = "processing", !.polling = TRUE,
                                !.resumed = TRUE]
    /\ UNCHANGED <<pipelineVars, codec, resolve, stream, merges, http>>

ClientNext ==
    \/ \E id \in JobIds : client.jobId = None /\ Upload(id, "bilingual")
    \/ \E id \in JobIds : client.jobId = None /\ Retranslate(id, "bilingual", PairSrt)
    \/ \E id \in JobIds : client.jobId = None /\ UploadExisting(id, PairSrt)
    \/ \E id \in JobIds : ClientSetJob(id)
    \/ \E id \in JobIds : PollSend(id)
    \/ \E s \in {"queued", "processing", "waiting_for_approval", "done", "error"} : PollReceive(s)
    \/ \E id \in JobIds, config \in Configs : ContinueClick(id, config)
    \/ \E id \in JobIds : ResumeHandled(id)
    \/ \E id \in JobIds : ContinueDone(id)
    \/ \E id \in JobIds : AiSpawnError(id)
    \/ \E id \in JobIds, text \in AiFiles : AiWriteSrt(id, text)
    \/ \E id \in JobIds, code \in {0, 1} : AiClose(id, code)
    \/ \E id \in JobIds : RetranslateTimer(id)
    \/ \E id \in JobIds, t \in RenderTasks : RenderEnd(id, t)
    \/ \E id \in JobIds, t \in RenderTasks : RenderError(id, t, FALSE)

ClientSpec == Init /\ [][ClientNext]_vars

----------------------------------------------------------------------------
(* Request harness: the update, load and download handlers of server/index.ts
   with the response they send, a disk whose writes can fail, and restarts of
   the server, which empty the registry and keep the data directory *)

Reply(request, id, code) == [request |-> request, id |-> id, code |-> code]

\* fs.writeFileSync: it succeeds, it throws before the file is opened, or it
\* throws after the file was opened for writing, leaving part of the new text
WriteFaults == {"none", "open", "cut"}

\* What a write of text that throws after opening the file can leave behind
CutTexts(text) == {SubSeq(text, 1, n) : n \in {0, Len(text) \div 2}}

\* POST /api/job/:jobId/update with its response
UpdateAttempt(id, body, fault) ==
    /\ requests[id].update < MaxUpdates
    /\ requests' = [requests EXCEPT ![id].update = @ + 1]
    /\ IF id \notin DOMAIN jobs
       THEN /\ http' = [http EXCEPT !.reply = Some(Reply("update", id, 404))]
            /\ UNCHANGED <<jobs, srtFile, lastEdit>>
       ELSE IF body = None \/ fault = "open"
       THEN \* buildSrt or writeFileSync throws with nothing written
            /\ http' = [http EXCEPT !.reply = Some(Reply("update", id, 500))]
            /\ UNCHANGED <<jobs, srtFile, lastEdit>>
       ELSE IF fault = "cut"
       THEN /\ http' = [http EXCEPT !.reply = Some(Reply("update", id, 500))]
            /\ \E text \in CutTexts(buildSrt(body[1])) :
                   srtFile' = [srtFile EXCEPT ![id] = Some(text)]
            /\ UNCHANGED <<jobs, lastEdit>>
       ELSE /\ http' = [http EXCEPT !.reply = Some(Reply("update", id, 200))]
            /\ srtFile' = [srtFile EXCEPT ![id] = Some(buildSrt(body[1]))]
            /\ jobs' = [jobs EXCEPT ![id] = SetPreview(@, body[1])]
            /\ lastEdit' = [lastEdit EXCEPT ![id] = body]
    /\ reviewed' = Track(jobs')
    /\ UNCHANGED <<inputSrt, softFile, burnFile, aiTask, retrTask, renders, codec, resolve,
                   stream, merges, client>>

\* The server process ends and starts again: `jobs` is a new Map, the
\* invocations are gone, the data directory is as it was
Restart ==
    /\ jobs' = EmptyMap
    /\ aiTask' = [j \in DOMAIN aiTask |-> NoAi]
    /\ retrTask' = [j \in DOMAIN retrTask |-> NoRetr]
    /\ renders' = [j \in DOMAIN renders |-> EmptyBag]
    /\ reviewed' = [j \in DOMAIN reviewed |-> FALSE]
    /\ http' = [dirs |-> http.dirs \cup DOMAIN jobs, reply |-> None]
    /\ UNCHANGED <<srtFile, inputSrt, softFile, burnFile, lastEdit, requests, codec, resolve,
                   stream, merges, client>>

\* The load handler reconstructing the job whether or not the registry holds it
Reload_Always(js, id, file) ==
    [j \in DOMAIN js \cup {id} |->
        IF j = id
        THEN NewJob("waiting_for_approval", "user_review", 60,
                    Some(Result(IF file = None THEN <<>> ELSE ReadCues(file[1]),
                                TRUE, FALSE, FALSE, FALSE)))
        ELSE js[j]]

\* jobs.has(jobId) ? unchanged : jobs.set(jobId, job) with the job built from
\* the directory
Reload(js, id, file) ==
    IF id \in DOMAIN js THEN js
    ELSE js @@ (id :> NewJob("waiting_for_approval", "user_review", 60,
                             Some(Result(ReadCues(file[1]), TRUE, FALSE, FALSE, FALSE))))

\* POST /api/job/:jobId/load with its response.  The directory of a job holds
\* its video from the request that created it on.
LoadJob(id) ==
    /\ IF id \notin DOMAIN jobs /\ id \notin http.dirs
       THEN /\ http' = [http EXCEPT !.reply = Some(Reply("load", id, 404))]
            /\ UNCHANGED jobs
       ELSE IF id \notin DOMAIN jobs /\ srtFile[id] = None
       THEN \* readFileSync throws: the error middleware answers
            /\ http' = [http EXCEPT !.reply = Some(Reply("load", id, 500))]
            /\ UNCHANGED jobs
       ELSE /\ http' = [http EXCEPT !.reply = Some(Reply("load", id, 200))]
            /\ jobs' = Reload(jobs, id, srtFile[id])
    /\ reviewed' = Track(jobs')
    /\ UNCHANGED <<srtFile, inputSrt, softFile, burnFile, aiTask, retrTask, renders, lastEdit,
                   requests, codec, resolve, stream, merges, client>>

DownloadTypes == {"srt", "soft", "burn", "raw"}

\* fs.existsSync(filePath) for the file of a download type
FileExists(id, type) ==
    CASE type = "srt" -> srtFile[id] # None
      [] type = "soft" -> softFile[id]
      [] type = "burn" -> burnFile[id]
      [] OTHER -> FALSE

\* The download handler serving every file that exists
DownloadCode_ByFile(js, id, type, exists) ==
    IF type \notin {"srt", "soft", "burn"} THEN 400
    ELSE IF exists THEN 200 ELSE 404

\* The status code of GET /api/download/:jobId/:type
DownloadCode(js, id, type, exists) ==
    IF id \notin DOMAIN js \/ js[id].status # "done" THEN 404
    ELSE IF type \notin {"srt", "soft", "burn"} THEN 400
    ELSE IF exists THEN 200 ELSE 404

Download(id, type) ==
    /\ http' = [http EXCEPT !.reply =
                    Some(Reply(type, id, DownloadCode(jobs, id, type, FileExists(id, type))))]
    /\ UNCHANGED <<pipelineVars, codec, resolve, stream, merges, client>>

HttpNext ==
    \/ \E id \in JobIds : id \notin http.dirs /\ Upload(id, "bilingual")
    \/ \E id \in JobIds : id \notin http.dirs /\ UploadExisting(id, PairSrt)
    \/ \E id \in JobIds, body \in {None, Some(PairEdit)}, fault \in WriteFaults :
           UpdateAttempt(id, body, fault)
    \/ \E id \in JobIds : Resume(id, None)
    \/ \E id \in JobIds, text \in AiFiles : AiWriteSrt(id, text)
    \/ \E id \in JobIds, code \in {0, 1} : AiClose(id, code)
    \/ \E id \in JobIds, t \in RenderTasks : RenderEnd(id, t)
    \/ \E id \in JobIds, t \in RenderTasks : RenderError(id, t, FALSE)
    \/ Restart
    \/ \E id \in JobIds : LoadJob(id)
    \/ \E id \in JobIds, type \in DownloadTypes : Download(id, type)

HttpSpec == Init /\ [][HttpNext]_vars

----------------------------------------------------------------------------
(* Properties of the pipeline (specification Spec) *)

Known(id) == id \in DOMAIN jobs
Preview(job) == job.result[1].previewCues

\* The step is a resume request for job id
ResumeStep(id) == requests'[id].resume > requests[id].resume

\* The step is an update request for job id
UpdateStep(id) == requests'[id].update > requests[id].update

\* The step ends a render stage of job id: a suspended invocation finishes, or
\* a resume with no operation enabled runs to its end
RenderStageEnds(id) ==
    \/ RendersInFlight(id)' < RendersInFlight(id)
    \/ ResumeStep(id) /\ RendersInFlight(id)' = RendersInFlight(id)

StageRunning(id) == AiRunning(id) \/ retrTask[id].pc = "timer"

\* C1: a resume request for a job whose status is not waiting_for_approval
\* starts no render operation and leaves the job record unchanged.
C1_ResumeOnlyWhenWaiting ==
    [][\A id \in JobIds :
          (Known(id) /\ jobs[id].status # "waiting_for_approval" /\ ResumeStep(id))
              => (jobs'[id] = jobs[id] /\ renders'[id] = renders[id])]_vars

\* C2: at most one render stage of a job is in flight at any time.
C2_AtMostOneRender == \A id \in JobIds : RendersInFlight(id) <= 1

\* p -> q is a decrease of a numeric progress value
Decreases(p, q) == p # Undefined /\ q # Undefined /\ q < p

\* C3: the progress of a job never decreases while its status is not error.
C3_ProgressMonotone ==
    [][\A id \in JobIds :
          (Known(id) /\ jobs[id].status # "error" /\ jobs'[id].status # "error")
              => ~Decreases(jobs[id].progress, jobs'[id].progress)]_vars

\* C4 as stated: the result is present if and only if status is
\* waiting_for_approval or done.
C4_ResultIffWaitingOrDone ==
    \A id \in DOMAIN jobs :
        HasResult(jobs[id]) <=> jobs[id].status \in {"waiting_for_approval", "done"}

\* C4 as amended: the result is present whenever status is waiting_for_approval
\* or done and absent while status is queued; with status processing or error
\* it is present exactly when the job has already been in waiting_for_approval
\* or done (the render stage and the error update keep the checkpoint result).
C4_ResultPresence ==
    \A id \in DOMAIN jobs :
        /\ jobs[id].status \in {"waiting_for_approval", "done"} => HasResult(jobs[id])
        /\ jobs[id].status = "queued" => ~HasResult(jobs[id])
        /\ HasResult(jobs[id]) <=> reviewed[id]

\* A render stage is running on the result attached at the checkpoint
C4_Witness ==
    \E id \in DOMAIN jobs :
        /\ jobs[id].status = "processing"
        /\ RendersInFlight(id) = 1
        /\ HasResult(jobs[id])
        /\ jobs[id].result[1].rawVideoUrl

\* Position of a job in the order queued, processing (AI), waiting_for_approval,
\* processing (render), done; a processing job is in its render stage once it
\* has a result
Rank(job) ==
    CASE job.status = "queued" -> 0
      [] job.status = "processing" /\ ~HasResult(job) -> 1
      [] job.status = "waiting_for_approval" -> 2
      [] job.status = "processing" /\ HasResult(job) -> 3
      [] job.status = "done" -> 4
      [] OTHER -> 5

\* C5: apart from the transition to error, the status of a job only moves
\* forward in the order queued, processing, waiting_for_approval, processing, done.
C5_StatusForward ==
    [][\A id \in JobIds :
          (Known(id) /\ jobs[id].status # "error" /\ jobs'[id].status # "error")
              => Rank(jobs'[id]) >= Rank(jobs[id])]_vars

\* C6: once the status of a job is error it stays error.
C6_ErrorTerminal ==
    [][\A id \in JobIds :
          (Known(id) /\ jobs[id].status = "error") => jobs'[id].status = "error"]_vars

\* C7: no render operation of a job runs while its AI stage or retranslate
\* stage is still running.
C7_NoStageOverlap ==
    \A id \in JobIds : ~(StageRunning(id) /\ RendersInFlight(id) > 0)

C10_FinalPreviewFromFile ==
    [][\A id \in JobIds :
          (Known(id) /\ RenderStageEnds(id) /\ jobs'[id].status = "done")
              => /\ srtFile[id] # None
                 /\ HasResult(jobs'[id])
                 /\ Preview(jobs'[id]) = ReadCues(srtFile[id][1])
                 /\ lastEdit[id] # None
                        => Preview(jobs'[id]) = ReadCues(buildSrt(lastEdit[id][1]))]_vars

\* A finished job whose preview is the re-parse of an edited file: it differs
\* from the cues the edit put in memory and from every stage snapshot
C10_Witness ==
    \E id \in DOMAIN jobs :
        /\ jobs[id].status = "done"
        /\ jobs[id].error = Absent
        /\ ~StageRunning(id)
        /\ RendersInFlight(id) = 0
        /\ jobs[id].result[1].softVideoUrl
        /\ lastEdit[id] # None
        /\ Preview(jobs[id]) = parseSrt(buildSrt(lastEdit[id][1]))
        /\ Preview(jobs[id]) # lastEdit[id][1]
        /\ Preview(jobs[id]) \notin {parseSrt(f) : f \in AiFiles \cup UploadedSrts}

----------------------------------------------------------------------------
(* Properties of the AI stage (specification Spec) *)

\* The step settles the promise of processJobInitial for job id
AiResolves(id) == AiRunning(id) /\ aiTask'[id].pc = "resolved"
AiRejects(id) == AiRunning(id) /\ aiTask'[id].pc = "rejected"

\* C11: when the AI collaborator exits with code 0 and the subtitle file
\* exists, the job becomes waiting_for_approval / user_review / 60 with a result
\* holding the raw-video reference and the preview parsed from that file.
C11_CheckpointAfterSuccess ==
    [][\A id \in JobIds :
          (Known(id) /\ AiResolves(id) /\ srtFile[id] # None)
              => /\ jobs'[id].status = "waiting_for_approval"
                 /\ jobs'[id].stage = "user_review"
                 /\ jobs'[id].progress = 60
                 /\ HasResult(jobs'[id])
                 /\ jobs'[id].result[1].rawVideoUrl
                 /\ Preview(jobs'[id]) = ReadCues(srtFile[id][1])]_vars

\* The AI stage of an uploaded job has ended at the checkpoint, before any edit
C11_Witness ==
    \E id \in DOMAIN jobs :
        /\ aiTask[id].pc = "resolved"
        /\ jobs[id].status = "waiting_for_approval"
        /\ jobs[id].stage = "user_review"
        /\ jobs[id].progress = 60
        /\ requests[id].update = 0
        /\ srtFile[id] # None
        /\ jobs[id].result[1].rawVideoUrl
        /\ Preview(jobs[id]) = parseSrt(srtFile[id][1])
        /\ Preview(jobs[id]) # <<>>

\* C12: when the AI collaborator exits with a non-zero code after writing
\* text to standard error, the job becomes error with that text in its error
\* field, and a job whose AI run was rejected is never waiting_for_approval.
C12_NonZeroExitFails ==
    [][\A id \in JobIds :
          /\ (Known(id) /\ AiRejects(id) /\ aiTask[id].errorOutput # "")
                 => /\ jobs'[id].status = "error"
                    /\ jobs'[id].error = ServiceFailedText(aiTask[id].errorOutput)
          /\ (Known(id) /\ aiTask'[id].pc = "rejected")
                 => jobs'[id].status # "waiting_for_approval"]_vars

\* The collaborator wrote "model load failed" to stderr and exited non-zero
C12_Witness ==
    \E id \in DOMAIN jobs :
        /\ aiTask[id].pc = "rejected"
        /\ jobs[id].status = "error"
        /\ jobs[id].error = ServiceFailedText("model load failed")

\* The stderr text an AI subprocess can have buffered: up to MaxStderr + 1 chunks
RECURSIVE StderrBuffers(_)
StderrBuffers(n) ==
    IF n = 0 THEN {""}
    ELSE StderrBuffers(n - 1) \cup {b \o t : b \in StderrBuffers(n - 1), t \in StderrTexts}

\* C13: when the AI collaborator exits with code 0 but the subtitle file does
\* not exist, the job becomes error, not waiting_for_approval, with a
\* diagnostic different from those of a launch failure and of a non-zero exit;
\* a job carrying that diagnostic is never waiting_for_approval.
C13_MissingFileFails ==
    [][\A id \in JobIds :
          /\ (Known(id) /\ AiResolves(id) /\ srtFile[id] = None)
                 => /\ jobs'[id].status = "error"
                    /\ jobs'[id].error = MissingSrtText
                    /\ jobs'[id].error # SpawnFailedText
                    /\ \A b \in StderrBuffers(MaxStderr + 1) :
                           jobs'[id].error # ServiceFailedText(ErrText(b))
          /\ (Known(id) /\ jobs'[id].error = MissingSrtText)
                 => jobs'[id].status # "waiting_for_approval"]_vars

\* The collaborator exited with code 0 without having written the file
C13_Witness ==
    \E id \in DOMAIN jobs :
        /\ aiTask[id].pc = "resolved"
        /\ srtFile[id] = None
        /\ jobs[id].status = "error"
        /\ jobs[id].error = MissingSrtText

\* A stdout line that is not an object with a stage field
Unstructured(line) == ~(line.json = "object" /\ line.stage # Absent)

\* C20: a stdout chunk whose lines are not structured objects with a stage
\* field (not JSON, null, a scalar, an object without stage) never fails the
\* job and leaves the job record unchanged.
C20_LogLinesIgnored ==
    [][\A id \in JobIds :
          (Known(id) /\ AiRunning(id) /\ aiTask'[id].pc = "running")
              => \A chunk \in StdoutChunks :
                     ((\A k \in 1..Len(chunk) : Unstructured(chunk[k])) /\ AiStdout(id, chunk))
                         => jobs'[id] = jobs[id]]_vars

\* The subprocess is running and has only produced stdout chunks without a
\* progress message: the job is as the upload left it
C20_Witness ==
    \E id \in DOMAIN jobs :
        /\ aiTask[id].pc = "running"
        /\ aiTask[id].chunks = 0
        /\ srtFile[id] = None
        /\ RendersInFlight(id) = 0
        /\ jobs[id] = NewJob("queued", "upload", 0, None)

----------------------------------------------------------------------------
(* Properties of the render stage (specification Spec) *)

\* The step ends the invocation suspended as task t without starting another
\* operation
TaskEnds(id, t) == BagIn(t, renders[id]) /\ renders'[id] = renders[id] (-) SetToBag({t})

\* C14: when a render stage completes successfully, its manifest has a
\* soft-video reference only if soft-mux was enabled in that stage and its
\* output exists, and a burned-video reference only if hard-burn was enabled
\* and its output exists; with soft enabled and burn disabled it has a
\* soft-video reference and no burned-video reference.
C14_ManifestMatchesStage ==
    [][\A id \in JobIds :
          (Known(id) /\ jobs'[id].status = "done")
              => /\ \A t \in RenderTasks :
                        TaskEnds(id, t)
                            => LET r == jobs'[id].result[1]
                               IN  /\ r.softVideoUrl => (t.cfg.renderSoft /\ softFile'[id])
                                   /\ r.burnVideoUrl => (t.cfg.renderBurn /\ burnFile'[id])
                                   /\ (t.cfg.renderSoft /\ ~t.cfg.renderBurn)
                                          => (r.softVideoUrl /\ ~r.burnVideoUrl)
                 /\ (ResumeStep(id) /\ renders'[id] = renders[id])
                        => (~jobs'[id].result[1].softVideoUrl
                                /\ ~jobs'[id].result[1].burnVideoUrl)]_vars

\* One render stage, soft only, has finished: the burn output was never made
C14_Witness ==
    \E id \in DOMAIN jobs :
        /\ jobs[id].status = "done"
        /\ jobs[id].stage = "complete"
        /\ requests[id].resume = 1
        /\ RendersInFlight(id) = 0
        /\ softFile[id] /\ ~burnFile[id]
        /\ jobs[id].result[1].softVideoUrl
        /\ ~jobs[id].result[1].burnVideoUrl

\* C15: when an enabled render operation fails, the job becomes error at once,
\* the invocation ends and starts no further operation; in particular a
\* failed soft-mux is not followed by the hard-burn of that stage.
C15_RenderFailureIsFatal ==
    [][\A id \in JobIds :
          (Known(id) /\ renders'[id] # renders[id])
              => \A t \in RenderTasks : \A partial \in BOOLEAN :
                     RenderError(id, t, partial)
                         => /\ jobs'[id].status = "error"
                            /\ RendersInFlight(id)' = RendersInFlight(id) - 1
                            /\ \A u \in RenderTasks :
                                   CopiesIn(u, renders'[id]) <= CopiesIn(u, renders[id])]_vars

\* The soft-mux of a stage with both operations enabled failed: no burn ran
C15_Witness ==
    \E id \in DOMAIN jobs :
        /\ jobs[id].status = "error"
        /\ jobs[id].error = SoftFailedText
        /\ jobs[id].stage = "render_soft"
        /\ requests[id].resume = 1
        /\ RendersInFlight(id) = 0
        /\ ~burnFile[id]
        /\ HasResult(jobs[id])

\* C16: whenever the status of a job is error, its result has neither a
\* soft-video reference nor a burned-video reference.
C16_ErrorHasNoVideoLinks ==
    \A id \in DOMAIN jobs :
        (jobs[id].status = "error" /\ HasResult(jobs[id]))
            => (~jobs[id].result[1].softVideoUrl /\ ~jobs[id].result[1].burnVideoUrl)

----------------------------------------------------------------------------
(* Properties of the language selection and of the retranslate stage
   (specification Spec) *)

\* The cues with the text of the language that was not selected blanked
SelectLanguage(cues, outputFormat) ==
    [k \in 1..Len(cues) |->
        IF outputFormat = "en" THEN [cues[k] EXCEPT !.zh = <<>>]
        ELSE IF outputFormat = "zh" THEN [cues[k] EXCEPT !.en = <<>>]
        ELSE cues[k]]

\* C17: at the end of a successful AI stage the preview holds the cues of the
\* produced file with the secondary text blanked for a primary-only job, the
\* primary text blanked for a secondary-only job and both texts kept for a
\* bilingual job; count and timestamps are those of the file.
C17_LanguageSelection ==
    [][\A id \in JobIds :
          (Known(id) /\ AiResolves(id) /\ srtFile[id] # None)
              => /\ HasResult(jobs'[id])
                 /\ Preview(jobs'[id]) =
                        SelectLanguage(ReadCues(srtFile[id][1]), aiTask[id].outputFormat)]_vars

\* Two cue sequences of the same length whose cues agree on start, end and
\* primary text
SameFrame(a, b) ==
    /\ Len(a) = Len(b)
    /\ \A k \in 1..Len(a) :
           a[k].start = b[k].start /\ a[k].end = b[k].end /\ a[k].en = b[k].en

\* The step is the continuation of processJobRetranslate after its timer
RetranslateEnds(id) == retrTask[id].pc = "timer" /\ retrTask'[id].pc = "done"

\* C18: the retranslate stage ends in waiting_for_approval / user_review / 60
\* with a result holding the raw-video reference and a preview, and both the
\* preview and the cues of the written subtitle file have, cue by cue in the
\* same order, the start, end and primary text of the cues parsed from the
\* input file.
C18_RetranslateKeepsFrame ==
    [][\A id \in JobIds :
          (Known(id) /\ RetranslateEnds(id))
              => /\ jobs'[id].status = "waiting_for_approval"
                 /\ jobs'[id].stage = "user_review"
                 /\ jobs'[id].progress = 60
                 /\ HasResult(jobs'[id])
                 /\ jobs'[id].result[1].rawVideoUrl
                 /\ inputSrt[id] # None /\ srtFile'[id] # None
                 /\ SameFrame(ReadCues(inputSrt[id][1]), Preview(jobs'[id]))
                 /\ SameFrame(ReadCues(inputSrt[id][1]), ReadCues(srtFile'[id][1]))]_vars

\* A retranslated job at the checkpoint whose input had two cues, the second
\* without text: its preview has a new secondary text the file cannot hold
C18_Witness ==
    \E id \in DOMAIN jobs :
        /\ retrTask[id].pc = "done"
        /\ jobs[id].status = "waiting_for_approval"
        /\ requests[id].update = 0
        /\ inputSrt[id] # None /\ srtFile[id] # None
        /\ Len(parseSrt(inputSrt[id][1])) = 2
        /\ Len(Preview(jobs[id])) = 2
        /\ Preview(jobs[id])[2].en = <<>>
        /\ Preview(jobs[id])[2].zh = ImprovedTag \o Placeholder
        /\ parseSrt(srtFile[id][1]) # Preview(jobs[id])

----------------------------------------------------------------------------
(* Properties of the config resolution (specification ResolveSpec) *)

\* The object o with every field of defaults it lacks taken from defaults
WithDefaults(o, defaults) ==
    [f \in DOMAIN defaults |-> IF f \in DOMAIN o THEN o[f] ELSE defaults[f]]

\* The fully resolved configuration of a resume body
FullyResolved(config) ==
    IF config = None THEN DefaultConfig
    ELSE LET top == WithDefaults(config[1], DefaultConfig)
         IN  [top EXCEPT !.burnConfig = WithDefaults(@, DefaultBurnConfig)]

\* C19: the render stage runs with the resume body's configuration in which
\* every field the body leaves out, the burn style and each of its fields
\* included, has its default; hard-burn, when enabled, gets the style of that
\* configuration; an absent body enables both operations.
C19_ConfigFullyResolved ==
    /\ resolve.pc \in {"resolved", "styled", "threw", "skipped"}
           => resolve.safeConfig = Some(FullyResolved(resolve.config))
    /\ resolve.pc # "threw"
    /\ resolve.pc = "styled"
           => resolve.style = StyleParts(FullyResolved(resolve.config))

----------------------------------------------------------------------------
(* Properties of the path escaping (specification EscapeSpec) *)

\* C38: in the escaped subtitle path every colon follows a backslash, and
\* every backslash precedes a colon, so that none is a path separator.
C38_PathEscaped ==
    resolve.pc = "escaped"
        => LET e == resolve.escaped
           IN  /\ \A k \in 1..Len(e) : e[k] = ":" => (k > 1 /\ e[k - 1] = "\\")
               /\ \A k \in 1..Len(e) : e[k] = "\\" => (k < Len(e) /\ e[k + 1] = ":")

\* A drive path with a backslash separator, escaped
C38_Witness ==
    /\ resolve.pc = "escaped"
    /\ resolve.srtPath = <<"C", ":", "\\">>
    /\ resolve.escaped = <<"C", "\\", ":", "/">>

----------------------------------------------------------------------------
(* Properties of the progress channel (specification StreamSpec) *)

\* The progress updates of the written lines that are objects with a stage
RECURSIVE ProgressOf(_)
ProgressOf(lines) ==
    IF lines = <<>> THEN <<>>
    ELSE (IF Unstructured(Head(lines)) THEN <<>>
          ELSE <<[stage |-> Head(lines).stage, progress |-> Head(lines).progress,
                  message |-> Head(lines).message]>>)
         \o ProgressOf(Tail(lines))

\* C29: once the whole output has been delivered, the registry updates made
\* are, in order, one for each written line that is an object with a stage
\* field, carrying its stage, progress and message, however the output was
\* cut into chunks.
C29_EveryMessageUpdates ==
    (stream.pc = "open" /\ stream.pending = <<>>)
        => stream.updates = ProgressOf(stream.written)

----------------------------------------------------------------------------
(* Properties of the error reports (specification Spec) *)

\* The messages of the catch blocks of the three stages
StageFailedMessages == {"AI Processing failed", "Re-translation failed", "Rendering failed"}

\* C25: whenever the status of a job is error, its message is the one of the
\* catch block of a stage (AI processing, re-translation, rendering) and its
\* error field holds a non-empty diagnostic string.
C25_ErrorIsQualified ==
    \A id \in DOMAIN jobs :
        jobs[id].status = "error"
            => /\ jobs[id].message \in StageFailedMessages
               /\ jobs[id].error \notin {Absent, ""}

\* C28: the progress of every stored job is a number between 0 and 100,
\* whatever progress messages the AI collaborator writes.
C28_ProgressInRange ==
    \A id \in DOMAIN jobs : jobs[id].progress \in 0..100

\* C30: an edit never replaces the subtitle file between the operations of one
\* render stage: while the hard-burn of a stage whose soft-mux has produced
\* its output is in flight, an update request leaves the file as it is, so
\* that soft-mux, hard-burn and final preview come from the same content.
C30_RenderUsesOneFile ==
    [][\A id \in JobIds :
          (Known(id) /\ UpdateStep(id) /\ softFile[id])
              => \A t \in RenderTasks :
                     (BagIn(t, renders[id]) /\ t.pc = "burn" /\ t.cfg.renderSoft)
                         => srtFile'[id] = srtFile[id]]_vars

----------------------------------------------------------------------------
(* Properties of the status during and after a render stage (specification
   Spec) *)

\* C31: whenever a soft-mux or hard-burn of a job is in flight, the status of
\* the job is processing, whichever of renderSoft and renderBurn are set.
C31_RenderingIsProcessing ==
    \A id \in DOMAIN jobs : RendersInFlight(id) > 0 => jobs[id].status = "processing"

\* C32: a done job is at stage complete with progress 100, and a job waiting
\* for approval is at stage user_review with progress 60.
C32_StatusFixesStage ==
    \A id \in DOMAIN jobs :
        /\ jobs[id].status = "done"
               => (jobs[id].stage = "complete" /\ jobs[id].progress = 100)
        /\ jobs[id].status = "waiting_for_approval"
               => (jobs[id].stage = "user_review" /\ jobs[id].progress = 60)

\* C33: when a render stage of a job ends in done and no edit has written the
\* subtitle file since a stage wrote it, the preview of the done result is the
\* preview the job had before, which is the one attached at the checkpoint.
C33_PreviewSurvivesRender ==
    [][\A id \in JobIds :
          (Known(id) /\ RenderStageEnds(id) /\ jobs'[id].status = "done"
                     /\ HasResult(jobs[id]) /\ lastEdit[id] = None)
              => Preview(jobs'[id]) = Preview(jobs[id])]_vars

----------------------------------------------------------------------------
(* Properties of the page (specification ClientSpec) *)

\* C34: once a resume request of the page has succeeded, the page polls the
\* status until it has seen done or error: whenever it has no interval, the
\* status it saw last is done or error, whatever the render configuration.
C34_PollsUntilSettled ==
    (client.resumed /\ ~client.polling) => client.seen \in {"done", "error"}

----------------------------------------------------------------------------
(* Properties of the update, load and download requests (specification
   HttpSpec) *)

\* C35: an update request that fails, because the cues cannot be serialized
\* or because the file write throws, is answered with a failure, and leaves
\* the subtitle file and the job, with its preview, as they were.
C35_FailedEditKeepsBoth ==
    [][\A id \in JobIds : \A body \in {None, Some(PairEdit)} : \A fault \in WriteFaults :
          (Known(id) /\ (body = None \/ fault # "none") /\ UpdateAttempt(id, body, fault))
              => /\ http'.reply = Some(Reply("update", id, 500))
                 /\ srtFile'[id] = srtFile[id]
                 /\ jobs'[id] = jobs[id]]_vars

C37_DownloadOnlyWhenDone ==
    [][\A id \in JobIds : \A type \in {"srt", "soft", "burn"} :
          Download(id, type)
              => /\ http'.reply[1].code = 200 => (Known(id) /\ jobs[id].status = "done")
                 /\ (~Known(id) \/ jobs[id].status # "done") => http'.reply[1].code = 404]_vars

\* The soft video of a job whose hard-burn failed is on disk, and its
\* download was refused
C37_Witness ==
    \E id \in DOMAIN jobs :
        /\ http.reply = Some(Reply("soft", id, 404))
        /\ jobs[id].status = "error"
        /\ jobs[id].error = BurnFailedText
        /\ softFile[id]

----------------------------------------------------------------------------
(* Progress of the stages (specification LiveSpec) *)

\* C24: when every started invocation comes to an end, a job whose AI
\* subprocess is running eventually has left the AI stage with status
\* waiting_for_approval or error, a job with a render stage in flight
\* eventually is done or error, and a job that is queued or processing
\* eventually is neither.
C24_StagesSettle ==
    \A id \in JobIds :
        /\ (Known(id) /\ AiRunning(id))
               ~> (Known(id) /\ ~AiRunning(id)
                             /\ jobs[id].status \in {"waiting_for_approval", "error"})
        /\ (Known(id) /\ RendersInFlight(id) > 0)
               ~> (Known(id) /\ jobs[id].status \in {"done", "error"})
        /\ (Known(id) /\ jobs[id].status \in {"queued", "processing"})
               ~> (Known(id) /\ jobs[id].status \notin {"queued", "processing"})

\* An uploaded job has left its AI stage at the checkpoint and, after one
\* resume with both operations, is done with both outputs
C24_Witness ==
    \E id \in DOMAIN jobs :
        /\ aiTask[id].pc = "resolved"
        /\ requests[id].resume = 1
        /\ RendersInFlight(id) = 0
        /\ jobs[id].status = "done"
        /\ jobs[id].result[1].softVideoUrl
        /\ jobs[id].result[1].burnVideoUrl

----------------------------------------------------------------------------
(* Properties of the registry (specification RegistrySpec) *)

\* C21: updateJobStatus on an id the registry does not hold creates no job and
\* leaves every stored job unchanged; the call returns normally.
C21_UnknownIdIsNoOp ==
    [][\A id \in PairIds : \A partial \in RegistryPartials :
          (id \notin DOMAIN jobs /\ RegistryMerge(id, partial))
              => jobs' = jobs]_vars

\* A job is stored, another id is not, and the harness has called
\* updateJobStatus with an id that was not stored
C21_Witness ==
    /\ merges.unknown
    /\ "j1" \in DOMAIN jobs
    /\ "j2" \notin DOMAIN jobs
    /\ jobs["j1"].status = "waiting_for_approval"

\* The calls of log that specified field f: the creation specifies every field
CallsWriting(log, f) ==
    {k \in 1..Len(log) : log[k].kind = "merge" /\ f \in DOMAIN log[k].partial}

\* The value of field f after the calls of log: that of the last call that
\* specified f, with the preview of the last in-place write made since
LastSpecified(log, f) ==
    LET k == SetMax(CallsWriting(log, f))
        v == log[k].partial[f]
        edits == {e \in (k + 1)..Len(log) : log[e].kind = "preview"}
    IN  IF f = "result" /\ v # None /\ edits # {}
        THEN Some([v[1] EXCEPT !.previewCues = log[SetMax(edits)].cues])
        ELSE v

\* C22: after any sequence of updateJobStatus calls and in-place preview
\* writes on one job, every field of the stored job holds the value of the
\* last call that specified it; a call never undoes a field it did not specify.
C22_NoLostField ==
    \A id \in DOMAIN jobs :
        merges.log[id] # <<>>
            => \A f \in DOMAIN jobs[id] : jobs[id][f] = LastSpecified(merges.log[id], f)

\* A checkpoint update, then a preview write, then an error update: the error
\* job still has the preview of the write
C22_Witness ==
    \E id \in DOMAIN jobs :
        /\ Len(merges.log[id]) = 4
        /\ merges.log[id][2].kind = "merge" /\ "result" \in DOMAIN merges.log[id][2].partial
        /\ merges.log[id][3].kind = "preview"
        /\ merges.log[id][4].kind = "merge" /\ "status" \in DOMAIN merges.log[id][4].partial
        /\ jobs[id].status = "error"
        /\ jobs[id].stage = "user_review"
        /\ Preview(jobs[id]) = merges.log[id][3].cues

----------------------------------------------------------------------------
(* Properties of two jobs on one server (specification PairSpec) *)

\* C23: a request or callback addressed to one job (upload, progress update,
\* edit, resume, completion, failure) neither stores nor removes nor changes
\* the registry record of the other job.
C23_JobsIndependent ==
    [][\A a \in PairIds : \A b \in PairIds \ {a} :
          PairStep(a)
              => /\ (b \in DOMAIN jobs') = (b \in DOMAIN jobs)
                 /\ b \in DOMAIN jobs => jobs'[b] = jobs[b]]_vars

\* The first job went through its AI stage, an edit and a render stage to
\* done while the second, uploaded and with its subprocess running, is as its
\* last progress message left it
C23_Witness ==
    /\ DOMAIN jobs = PairIds
    /\ jobs["j1"].status = "done"
    /\ jobs["j1"].stage = "complete"
    /\ aiTask["j1"].pc = "resolved"
    /\ requests["j1"].update = 1
    /\ jobs["j2"] = [NewJob("queued", "translate", 40, None) EXCEPT !.message = "Translating"]
    /\ aiTask["j2"].pc = "running"

----------------------------------------------------------------------------
(* Properties of the codec (specification CodecSpec) *)

\* C8: parse(serialize(C)) = C for every cue sequence C whose cues have
\* non-empty start and end timestamps.
C8_RoundTrip == codec.pc = "parsed" => codec.parsed = codec.cues

\* The four lines of the i-th block
BlockLines(cue, i) == <<ToDec(i), cue.start \o Arrow \o cue.end, cue.en, cue.zh>>

\* The lines of a file: four per cue, one empty line between two blocks
RECURSIVE SrtLines(_, _)
SrtLines(cues, i) ==
    IF i > Len(cues) THEN <<>>
    ELSE (IF i > 1 THEN <<<<>>>> ELSE <<>>) \o BlockLines(cues[i], i) \o SrtLines(cues, i + 1)

----------------------------------------------------------------------------
(* Properties of the codec (specification SkipSpec) *)

\* C26: parseSrt of a file holding a block with fewer than two lines, or whose
\* second line has no "-->", returns what it returns for the file without
\* that block: the block is skipped and the blocks before and after it give
\* the same cues in the same order.
C26_MalformedBlockSkipped ==
    (codec.pc = "parsed" /\ codec.bad # <<>>)
        => codec.parsed = parseSrt(buildSrt(codec.cues))

\* A four-line block without "-->" between two blocks that parse to cues
C26_Witness ==
    /\ codec.pc = "parsed"
    /\ Len(Split(codec.bad, NL)) = 4
    /\ ~Includes(codec.bad, ArrowMark)
    /\ Len(codec.cues) = 2
    /\ codec.at = 1
    /\ codec.parsed = codec.cues

====
